---- MODULE Spec2Model ----
(***************************************************************************)
(* Cache service and rate limiter of the chapter API, with the store       *)
(* client they share.                                                      *)
(*                                                                         *)
(*   config/redis.js      module-level redisClient, connectRedis,          *)
(*                        getRedisClient (an ioredis version and a         *)
(*                        node-redis version are both in the repository)   *)
(*   services/cacheService.js   CacheService                               *)
(*   middleware/rateLimiter.js  RedisStore, createRateLimiter              *)
(*   controllers/chapterController.js  getChapters                         *)
(*                                                                         *)
(* One step of the model is one run of the JavaScript event loop: the      *)
(* synchronous code and the microtasks between two awaits of an            *)
(* unsettled promise run as one action.  The store answering a command, a  *)
(* timer firing and a socket event are separate actions.                   *)
(***************************************************************************)
EXTENDS Integers, Sequences, FiniteSets, TLC

VARIABLES
  lib,                \* which config/redis module is loaded: "ioredis" or "redis"
  redisClient,        \* config/redis.js: let redisClient
  open,               \* the handle's socket is open (ioredis status 'ready', node-redis isOpen)
  responsive,         \* the store answers the commands it receives
  store,              \* contents of the key-value store
  client,             \* CacheService.client
  initialized,        \* CacheService.initialized
  retryPending,       \* the 3 s setTimeout of attemptInit is armed
  op,                 \* the cache operation in flight
  lastSet,            \* history: the set(k, v) that returned true just before op
  expiredSince,       \* history: a key expired since the last set was written
  lateTimers,         \* armed timers of returned operations whose promise has no handler
  unhandledRejection, \* the process 'unhandledRejection' handler has been triggered
  limiter,            \* options of the limiter built by createRateLimiter
  reqs,               \* the requests passing the rate-limit middleware
  inWindow,           \* history: increments counted per address in the current window
  windowClean,        \* history: the store was ready and error-free all through the window
  h,                  \* the GET /api/v1/chapters request in the handler
  server,             \* the process: "starting", "listening" or "exited"
  query,              \* generateCacheKey: the query mapping it is called with
  cacheKey,           \* generateCacheKey: the key it resolves to
  u,                  \* the POST /api/v1/chapters request in the handler
  db,                 \* the record store: the number of uploads inserted into it
  sd                  \* the shutdown on a signal: its handlers and the HTTP server

connVars  == <<lib, redisClient, open, responsive>>
cacheVars == <<client, initialized, retryPending>>
opVars    == <<op, lastSet, expiredSince, lateTimers, unhandledRejection>>
rateVars  == <<limiter, reqs, inWindow, windowClean>>
keyVars   == <<query, cacheKey>>
httpVars  == <<h, server, query, cacheKey, u, db, sd>>
vars == <<lib, redisClient, open, responsive, store, client, initialized,
          retryPending, op, lastSet, expiredSince, lateTimers, unhandledRejection,
          limiter, reqs, inWindow, windowClean, h, server, query, cacheKey, u, db, sd>>

----------------------------------------------------------------------------
(* Bounds of the model *)

MaxLateTimers == 1
MaxInserts == 1
MaxChapters == 2
LimiterMax == 2

----------------------------------------------------------------------------
(* JavaScript values, as sequences of tokens.                              *)
(*   <<"null">>  <<"num", d>>  <<"nan">>  <<"str", s>>  <<"date", iso>>     *)
(*   <<"bool", b>>  <<"obj">> = {}   <<"obj"> \o p = {data: p}             *)
(*   <<"undef">> only as the value of an object's field                    *)

VNull   == <<"null">>
VNum    == <<"num", "1">>
VNaN    == <<"nan">>
VDate   == <<"date", "2024-01-01T00:00:00.000Z">>
VEmpty  == <<"obj">>
VObjU   == <<"obj", "undef">>
VObjN   == <<"obj", "num", "1">>
VTrue   == <<"bool", "true">>
VFalse  == <<"bool", "false">>
VStrD   == <<"str", "2024-01-01T00:00:00.000Z">>

\* the values handed to set
Values == {VNum, VNaN, VDate, VObjU, VObjN}

\* responseData of the listing, computed from the record store after n
\* inserts, as a JSON-representable value
Digit(i) == <<"1", "2", "3", "4", "5">>[i]

ResponseDataOf(n) == <<"obj", "num", Digit(n + 1)>>

\* the values JSON text denotes
PlainValues == {VNull, VNum, VStrD, VEmpty, VObjN, VTrue, VFalse}
                 \cup {ResponseDataOf(n) : n \in 0..MaxInserts}

StringifyPrim(p) ==
  CASE p[1] = "null" -> "null"
    [] p[1] = "nan"  -> "null"
    [] p[1] = "num"  -> p[2]
    [] p[1] = "bool" -> p[2]
    [] p[1] = "str"  -> "\"" \o p[2] \o "\""
    [] p[1] = "date" -> "\"" \o p[2] \o "\""

JSONstringify(v) ==
  IF v[1] = "obj"
    THEN IF Len(v) = 1 \/ v[2] = "undef"
           THEN "{}"
           ELSE "{\"data\":" \o StringifyPrim(Tail(v)) \o "}"
    ELSE StringifyPrim(v)

JSONparse(s) == CHOOSE v \in PlainValues : JSONstringify(v) = s

----------------------------------------------------------------------------
(* The store *)

NoClient == 0
Handle   == 1

K1 == <<"/api/v1/chapters", "?limit=10&page=1">>
K2 == <<"/api/v1/chapters", "?limit=10&page=2">>
CacheKeys == {K1, K2}

\* the key the listing handler passes: the promise generateCacheKey returns,
\* not awaited, as the client library serialises it
KPromise == <<"[object Promise]">>

Addresses == {"10.0.0.1", "10.0.0.2"}
RateKey(ip) == <<"rl:", ip>>
RateKeys == {RateKey(ip) : ip \in Addresses}

\* a cached response of another endpoint
OtherKey == <<"/api/v1/users", "?page=1">>

AllKeys == CacheKeys \cup {KPromise, OtherKey} \cup RateKeys

CACHE_EXPIRY == 3600

Absent == [present |-> FALSE, v |-> "", n |-> 0, ttl |-> 0]
StrEntry(s, ttl) == [present |-> TRUE, v |-> s, n |-> 0, ttl |-> ttl]

----------------------------------------------------------------------------
(* config/redis.js *)

\* client.isOpen: a property of node-redis handles; an ioredis handle has none
IsOpen(c) == c # NoClient /\ lib = "redis" /\ open

GetRedisClient ==
  IF lib = "ioredis"
    THEN IF redisClient # NoClient /\ open THEN redisClient ELSE NoClient
    ELSE redisClient

\* connectRedis, the connection is established
ConnectRedis ==
  /\ redisClient = NoClient
  /\ redisClient' = Handle
  /\ open' = TRUE
  /\ UNCHANGED <<lib, responsive, store, cacheVars, opVars, rateVars, httpVars>>

\* connectRedis, connect() rejects
ConnectRedisFail ==
  /\ redisClient = NoClient
  /\ redisClient' = IF lib = "redis" THEN Handle ELSE NoClient
  /\ open' = FALSE
  /\ UNCHANGED <<lib, responsive, store, cacheVars, opVars, rateVars, httpVars>>

\* the socket closes; the client library starts reconnecting
ConnDrop ==
  /\ redisClient # NoClient /\ open
  /\ open' = FALSE
  /\ UNCHANGED <<lib, redisClient, responsive, store, cacheVars, opVars, rateVars, httpVars>>

ConnRestore ==
  /\ redisClient # NoClient /\ ~open
  /\ open' = TRUE
  /\ UNCHANGED <<lib, redisClient, responsive, store, cacheVars, opVars, rateVars, httpVars>>

\* ioredis 'end' handler
ConnEnd ==
  /\ lib = "ioredis"
  /\ redisClient # NoClient /\ ~open
  /\ redisClient' = NoClient
  /\ UNCHANGED <<lib, open, responsive, store, cacheVars, opVars, rateVars, httpVars>>

\* the store stops answering; commands it has received stay unanswered
StoreHang ==
  /\ responsive
  /\ responsive' = FALSE
  /\ UNCHANGED <<lib, redisClient, open, store, cacheVars, opVars, rateVars, httpVars>>

StoreRecover ==
  /\ ~responsive
  /\ responsive' = TRUE
  /\ UNCHANGED <<lib, redisClient, open, store, cacheVars, opVars, rateVars, httpVars>>

\* a key with an expiry reaches it
Expire(k) ==
  /\ store[k].present /\ store[k].ttl > 0
  /\ store' = [store EXCEPT ![k] = Absent]
  /\ expiredSince' = TRUE
  /\ UNCHANGED <<connVars, cacheVars, op, lastSet, lateTimers, unhandledRejection,
                 rateVars, httpVars>>

----------------------------------------------------------------------------
(* CacheService *)

IsAvailable == client # NoClient /\ IsOpen(client) /\ initialized

\* attemptInit
AttemptInit ==
  /\ client' = GetRedisClient
  /\ IF GetRedisClient # NoClient
       THEN initialized' = TRUE /\ UNCHANGED retryPending
       ELSE retryPending' = TRUE /\ UNCHANGED initialized

Initialize ==
  /\ ~retryPending
  /\ AttemptInit
  /\ UNCHANGED <<connVars, store, opVars,
                 rateVars, httpVars>>

\* the retry timer of attemptInit fires
RetryInit ==
  /\ retryPending
  /\ IF ~initialized
       THEN AttemptInit
       ELSE retryPending' = FALSE /\ UNCHANGED <<client, initialized>>
  /\ UNCHANGED <<connVars, store, opVars,
                 rateVars, httpVars>>

Idle == [name |-> "none", key |-> <<>>, val |-> <<>>, pc |-> "idle",
         timer |-> "none", ms |-> 0, raced |-> FALSE, result |-> <<>>,
         how |-> "", keys |-> {}]

NoSet == [key |-> <<>>, val |-> <<>>]

\* getClient: the reference getClient() leaves in this.client and returns
GetClientRef ==
  IF client = NoClient \/ ~IsOpen(client) THEN GetRedisClient ELSE client

TimeoutMs(name) ==
  CASE name \in {"get", "set", "delete"}            -> 5000
    [] name \in {"invalidatePattern", "clearAll"}   -> 10000
    [] name = "healthCheck"                         -> 3000

\* the value an operation returns when it does not reach the store
SafeDefault(name) == IF name = "get" THEN VNull ELSE VFalse

\* glob match of the key patterns in use: a trailing * matches any suffix
Match(pattern, k) ==
  IF pattern[Len(pattern)] = "*"
    THEN /\ Len(k) >= Len(pattern) - 1
         /\ SubSeq(k, 1, Len(pattern) - 1) = SubSeq(pattern, 1, Len(pattern) - 1)
    ELSE k = pattern

ChapterPattern == <<"/api/v1/chapters", "*">>
OtherPattern   == <<"/api/v1/users", "*">>
Patterns       == {ChapterPattern, OtherPattern}

Finish(o, result, how) == [o EXCEPT !.pc = "done", !.result = result, !.how = how]

\* the common opening of get, set, delete, invalidatePattern and clearAll:
\* the isAvailable() guard, getClient(), the timeout promise, the store
\* command sent and awaited
\* Begin without the isAvailable() guard
BeginNoGuard(name, k, v) ==
  /\ op.pc = "idle"
  /\ client' = GetClientRef
  /\ IF GetClientRef = NoClient
       THEN op' = Finish([Idle EXCEPT !.name = name, !.key = k, !.val = v],
                         SafeDefault(name), "unavailable")
       ELSE op' = [Idle EXCEPT !.name = name, !.key = k, !.val = v,
                               !.pc = "awaitStore", !.timer = "armed",
                               !.ms = TimeoutMs(name)]
  /\ UNCHANGED <<connVars, store, initialized, retryPending,
                 lastSet, expiredSince, lateTimers, unhandledRejection, rateVars>>

Begin(name, k, v) ==
  /\ op.pc = "idle"
  /\ IF ~IsAvailable
       THEN /\ op' = Finish([Idle EXCEPT !.name = name, !.key = k, !.val = v],
                            SafeDefault(name), "unavailable")
            /\ UNCHANGED client
       ELSE /\ client' = GetClientRef
            /\ IF GetClientRef = NoClient
                 THEN op' = Finish([Idle EXCEPT !.name = name, !.key = k, !.val = v],
                                   SafeDefault(name), "unavailable")
                 ELSE op' = [Idle EXCEPT !.name = name, !.key = k, !.val = v,
                                         !.pc = "awaitStore", !.timer = "armed",
                                         !.ms = TimeoutMs(name)]
  /\ UNCHANGED <<connVars, store, initialized, retryPending,
                 lastSet, expiredSince, lateTimers, unhandledRejection, rateVars>>

CacheOps == {"get", "set", "delete", "invalidatePattern", "clearAll"}

CallGet(k)               == Begin("get", k, <<>>) /\ UNCHANGED httpVars
CallSet(k, v)            == Begin("set", k, v) /\ UNCHANGED httpVars
CallDelete(k)            == Begin("delete", k, <<>>) /\ UNCHANGED httpVars
CallInvalidatePattern(p) == Begin("invalidatePattern", p, <<>>) /\ UNCHANGED httpVars
CallClearAll             == Begin("clearAll", <<>>, <<>>) /\ UNCHANGED httpVars

\* the store answers the command an operation awaits; the operation then
\* races the answer against its timeout promise and runs to its return
Answered(name, pc) ==
  /\ op.name = name /\ op.pc = pc
  /\ open /\ responsive
  /\ UNCHANGED <<connVars, cacheVars, lastSet, lateTimers, unhandledRejection,
                 rateVars, httpVars>>

GetReply ==
  /\ Answered("get", "awaitStore")
  /\ UNCHANGED expiredSince
  /\ LET e == store[op.key]
     IN  op' = IF e.present /\ e.v # ""
                 THEN Finish([op EXCEPT !.raced = TRUE], JSONparse(e.v), "hit")
                 ELSE Finish([op EXCEPT !.raced = TRUE], VNull, "miss")
  /\ UNCHANGED store

\* SetReply that reports success without writing the entry
SetReplyNoWrite ==
  /\ Answered("set", "awaitStore")
  /\ UNCHANGED expiredSince
  /\ op' = Finish([op EXCEPT !.raced = TRUE], VTrue, "ok")
  /\ UNCHANGED store

SetReply ==
  /\ Answered("set", "awaitStore")
  /\ expiredSince' = FALSE
  /\ store' = [store EXCEPT ![op.key] = StrEntry(JSONstringify(op.val), CACHE_EXPIRY)]
  /\ op' = Finish([op EXCEPT !.raced = TRUE], VTrue, "ok")

DeleteReply ==
  /\ Answered("delete", "awaitStore")
  /\ UNCHANGED expiredSince
  /\ store' = [store EXCEPT ![op.key] = Absent]
  /\ op' = Finish([op EXCEPT !.raced = TRUE],
                  IF store[op.key].present THEN VTrue ELSE VFalse, "ok")

KeysReply ==
  /\ Answered("invalidatePattern", "awaitStore")
  /\ UNCHANGED expiredSince
  /\ LET keys == {k \in AllKeys : store[k].present /\ Match(op.key, k)}
     IN  op' = IF keys # {}
                 THEN [op EXCEPT !.raced = TRUE, !.keys = keys, !.pc = "awaitDel"]
                 ELSE Finish([op EXCEPT !.raced = TRUE], VTrue, "ok")
  /\ UNCHANGED store

\* DelKeysReply deleting more than the keys of the scan
DelKeysReplyAll ==
  /\ Answered("invalidatePattern", "awaitDel")
  /\ UNCHANGED expiredSince
  /\ store' = [k \in AllKeys |-> Absent]
  /\ op' = Finish(op, VTrue, "ok")

DelKeysReply ==
  /\ Answered("invalidatePattern", "awaitDel")
  /\ UNCHANGED expiredSince
  /\ store' = [k \in AllKeys |-> IF k \in op.keys THEN Absent ELSE store[k]]
  /\ op' = Finish(op, VTrue, "ok")

FlushReply ==
  /\ Answered("clearAll", "awaitStore")
  /\ UNCHANGED expiredSince
  /\ store' = [k \in AllKeys |-> Absent]
  /\ op' = Finish([op EXCEPT !.raced = TRUE], VTrue, "ok")

\* StoreError without the catch block: the rejection reaches the caller
StoreErrorRethrow ==
  /\ op.pc \in {"awaitStore", "awaitDel"}
  /\ op' = Finish(op, <<"thrown">>, "error")
  /\ UNCHANGED <<connVars, store, cacheVars, lastSet, expiredSince, lateTimers,
                 unhandledRejection,
                 rateVars, httpVars>>

\* the awaited command rejects: the catch block of the operation
StoreError ==
  /\ op.pc \in {"awaitStore", "awaitDel"}
  /\ op' = Finish(op, SafeDefault(op.name), "error")
  /\ UNCHANGED <<connVars, store, cacheVars, lastSet, expiredSince, lateTimers,
                 unhandledRejection,
                 rateVars, httpVars>>

\* healthCheck: ping() is not awaited before the race
CallHealthCheck ==
  /\ op.pc = "idle"
  /\ IF ~initialized
       THEN /\ op' = Finish([Idle EXCEPT !.name = "healthCheck"],
                            <<"status", "not_initialized">>, "unavailable")
            /\ UNCHANGED client
       ELSE /\ client' = GetClientRef
            /\ IF GetClientRef = NoClient \/ ~IsOpen(GetClientRef)
                 THEN op' = Finish([Idle EXCEPT !.name = "healthCheck"],
                                   <<"status", "unavailable">>, "unavailable")
                 ELSE op' = [Idle EXCEPT !.name = "healthCheck", !.pc = "race",
                                         !.timer = "armed", !.raced = TRUE,
                                         !.ms = TimeoutMs("healthCheck")]
  /\ UNCHANGED <<connVars, store, initialized, retryPending,
                 lastSet, expiredSince, lateTimers, unhandledRejection,
                 rateVars, httpVars>>

PingReply ==
  /\ Answered("healthCheck", "race")
  /\ UNCHANGED expiredSince
  /\ op' = Finish(op, <<"status", "healthy">>, "ok")
  /\ UNCHANGED store

\* PingError without the catch block: the rejection reaches the caller
PingErrorThrows ==
  /\ op.name = "healthCheck" /\ op.pc = "race"
  /\ op' = Finish(op, <<"thrown">>, "error")
  /\ UNCHANGED <<connVars, store, cacheVars, lastSet, expiredSince, lateTimers,
                 unhandledRejection,
                 rateVars, httpVars>>

PingError ==
  /\ op.name = "healthCheck" /\ op.pc = "race"
  /\ op' = Finish(op, <<"status", "error">>, "error")
  /\ UNCHANGED <<connVars, store, cacheVars, lastSet, expiredSince, lateTimers,
                 unhandledRejection,
                 rateVars, httpVars>>

\* the setTimeout of the operation in flight fires and rejects its timeout
\* promise: an operation inside Promise.race loses the race; a promise that
\* has no handler yet is an unhandled rejection
TimerFire ==
  /\ op.timer = "armed"
  /\ op' = IF op.pc = "race"
             THEN Finish([op EXCEPT !.timer = "fired"], <<"status", "error">>, "timeout")
             ELSE [op EXCEPT !.timer = "fired"]
  /\ unhandledRejection' = (unhandledRejection \/ ~op.raced)
  /\ UNCHANGED <<connVars, store, cacheVars, lastSet, expiredSince, lateTimers,
                 rateVars, httpVars>>

\* the caller takes the result; the timer of the operation stays armed
TakeResult ==
  /\ op.pc = "done"
  /\ LET orphan == IF op.timer = "armed" /\ ~op.raced THEN 1 ELSE 0
     IN  /\ lateTimers + orphan <= MaxLateTimers
         /\ lateTimers' = lateTimers + orphan
  /\ lastSet' = IF op.name = "set" /\ op.result = VTrue
                  THEN [key |-> op.key, val |-> op.val]
                  ELSE NoSet
  /\ op' = Idle
  /\ UNCHANGED <<connVars, store, cacheVars, expiredSince, unhandledRejection,
                 rateVars>>

Return == TakeResult /\ UNCHANGED httpVars

\* the timer of a returned operation fires; nothing handles its promise
LateTimerFire ==
  /\ lateTimers > 0
  /\ lateTimers' = lateTimers - 1
  /\ unhandledRejection' = TRUE
  /\ UNCHANGED <<connVars, store, cacheVars, op, lastSet, expiredSince,
                 rateVars, httpVars>>


----------------------------------------------------------------------------
(* Rate limiter: RedisStore and the middleware createRateLimiter builds *)

NumReq == LimiterMax + 1
Requests == 1..NumReq

WindowChoices == {60000, 120000}
DefaultWindowMs == 60000
FallbackWindowMs == 60000
RateTtlSeconds == 60

\* Math.ceil(windowMs / 1000)
RetryAfter(windowMs) == (windowMs + 999) \div 1000

\* RedisStore.incr when the store is not used: not available, or the catch block
FallbackClosed == [totalHits |-> LimiterMax + 1, resetMs |-> FallbackWindowMs]

Fallback == [totalHits |-> 1, resetMs |-> FallbackWindowMs]

NewReq == [ip |-> "", pc |-> "new", hits |-> 0, resetMs |-> 0, retryAfter |-> 0,
           ord |-> 0, clean |-> FALSE, unavail |-> FALSE, errored |-> FALSE,
           counted |-> FALSE, fin |-> "none", failed |-> FALSE, body |-> <<>>,
           incrs |-> 0, via |-> "general"]

\* the middleware has decided on the request
Decided(r) == reqs[r].pc \in {"admitted", "rejected"}

\* the store is connected and ready
StoreReady == redisClient # NoClient /\ open

\* the middleware's decision on the result of store.incr
\* the message option: a string, or an object with or without a message
DefaultMessage == <<"str", "Too many requests from this IP, please try again later.">>

\* typeof message === 'string' ? message : message.message || 'Rate limit exceeded'
MessageText(m) ==
  IF m[1] = "str" THEN m[2]
  ELSE IF Len(m) > 1 /\ m[2] # "" THEN m[2] ELSE "Rate limit exceeded"

\* handler: res.status(429).json({success, error, message, retryAfter})
Handler429Leaky(windowMs, message) ==
  [status |-> 429,
   json |-> [success |-> FALSE, error |-> "Too many requests",
             message |-> MessageText(message),
             retryAfter |-> RetryAfter(windowMs),
             stack |-> "Error: at RedisStore.incr"]]

Handler429(windowMs, message) ==
  [status |-> 429,
   json |-> [success |-> FALSE, error |-> "Too many requests",
             message |-> MessageText(message),
             retryAfter |-> RetryAfter(windowMs)]]

\* the limiter instances: generalLimiter() and strictLimiter() differ in
\* max (30 and 10 in the source); each has a RedisStore of its own, and
\* every RedisStore has the prefix 'rl:'
Policies == {"general", "strict"}

PolicyMax(L) == IF L = "strict" THEN limiter.max - 1 ELSE limiter.max

Prefix(L) == "rl:"

\* this.prefix + key
LimiterKey(L, ip) == <<Prefix(L), ip>>

Decide(rq, res) ==
  [rq EXCEPT !.hits = res.totalHits, !.resetMs = res.resetMs,
             !.pc = IF res.totalHits > PolicyMax(rq.via) THEN "rejected" ELSE "admitted",
             !.retryAfter = IF res.totalHits > PolicyMax(rq.via)
                              THEN RetryAfter(limiter.windowMs) ELSE 0,
             !.body = IF res.totalHits > PolicyMax(rq.via)
                        THEN Handler429(limiter.windowMs, limiter.message)
                        ELSE <<>>]

\* history: the increment of request rq is the next one counted for its address
Counted(rq, ip, ok) ==
  [rq EXCEPT !.ord = inWindow[ip] + 1, !.clean = windowClean[ip] /\ ok]

\* a request reaches the middleware: keyGenerator, store.incr up to its first await
ArriveAt(L, r, ip) ==
  /\ reqs[r].pc = "new"
  /\ IF r = 1 THEN TRUE ELSE reqs[r - 1].pc # "new"
  /\ LET c  == GetRedisClient
         rq == [reqs[r] EXCEPT !.ip = ip, !.unavail = ~StoreReady, !.via = L]
     IN  IF c = NoClient \/ ~IsOpen(c)
           THEN /\ reqs' = [reqs EXCEPT ![r] = Decide(Counted(rq, ip, StoreReady), Fallback)]
                /\ inWindow' = [inWindow EXCEPT ![ip] = @ + 1]
                /\ windowClean' = [windowClean EXCEPT ![ip] = @ /\ StoreReady]
           ELSE /\ reqs' = [reqs EXCEPT ![r] = [rq EXCEPT !.pc = "awaitIncr"]]
                /\ UNCHANGED <<inWindow, windowClean>>
  /\ UNCHANGED <<connVars, store, cacheVars, opVars, limiter, httpVars>>

\* the one limiter of app.js
Arrive(r, ip) == ArriveAt("general", r, ip)

\* the store executes INCR and answers
IncrReply(r) ==
  /\ reqs[r].pc = "awaitIncr"
  /\ open /\ responsive
  /\ LET k  == LimiterKey(reqs[r].via, reqs[r].ip)
         e  == store[k]
         n  == (IF e.present THEN e.n ELSE 0) + 1
         rq == [Counted(reqs[r], reqs[r].ip, TRUE) EXCEPT !.counted = TRUE,
                                                          !.incrs = @ + 1]
     IN  /\ store' = [store EXCEPT ![k] = [present |-> TRUE, v |-> "", n |-> n,
                                           ttl |-> IF e.present THEN e.ttl ELSE 0]]
         /\ reqs' = [reqs EXCEPT ![r] =
                       IF n = 1
                         THEN [rq EXCEPT !.pc = "awaitExpire", !.hits = n]
                         ELSE Decide(rq, [totalHits |-> n, resetMs |-> FallbackWindowMs])]
         /\ inWindow' = [inWindow EXCEPT ![reqs[r].ip] = @ + 1]
  /\ UNCHANGED <<connVars, cacheVars, opVars, limiter, windowClean, httpVars>>

\* the store executes EXPIRE key 60 and answers
ExpireReply(r) ==
  /\ reqs[r].pc = "awaitExpire"
  /\ open /\ responsive
  /\ LET k == RateKey(reqs[r].ip)
     IN  store' = [store EXCEPT ![k] =
                     IF @.present THEN [@ EXCEPT !.ttl = RateTtlSeconds] ELSE @]
  /\ reqs' = [reqs EXCEPT ![r] =
                Decide(@, [totalHits |-> reqs[r].hits, resetMs |-> FallbackWindowMs])]
  /\ UNCHANGED <<connVars, cacheVars, opVars, limiter, inWindow, windowClean, httpVars>>

\* INCR or EXPIRE rejects: the catch block of RedisStore.incr
IncrError(r) ==
  /\ reqs[r].pc \in {"awaitIncr", "awaitExpire"}
  /\ LET ip == reqs[r].ip
         rq == IF reqs[r].pc = "awaitIncr"
                 THEN Counted(reqs[r], ip, FALSE)
                 ELSE [reqs[r] EXCEPT !.clean = FALSE]
     IN  /\ reqs' = [reqs EXCEPT ![r] = Decide([rq EXCEPT !.errored = TRUE], Fallback)]
         /\ inWindow' = [inWindow EXCEPT ![ip] =
                           IF reqs[r].pc = "awaitIncr" THEN @ + 1 ELSE @]
         /\ windowClean' = [windowClean EXCEPT ![ip] = FALSE]
  /\ UNCHANGED <<connVars, store, cacheVars, opVars, limiter, httpVars>>

\* the window of an address ends: its counter, if it has an expiry, expires
WindowEnd(ip) ==
  /\ inWindow[ip] > 0
  /\ \A r \in Requests : reqs[r].ip = ip => reqs[r].pc \in {"admitted", "rejected"}
  /\ store[RateKey(ip)].present => store[RateKey(ip)].ttl > 0
  /\ store' = [store EXCEPT ![RateKey(ip)] = Absent]
  /\ inWindow' = [inWindow EXCEPT ![ip] = 0]
  /\ windowClean' = [windowClean EXCEPT ![ip] = TRUE]
  /\ reqs' = [r \in Requests |->
               IF reqs[r].ip = ip THEN [reqs[r] EXCEPT !.counted = FALSE] ELSE reqs[r]]
  /\ UNCHANGED <<connVars, cacheVars, opVars, limiter, httpVars>>

\* createSimpleRateLimiter: the in-process store counts the hits of the
\* address in the memory of the process; the store is not used
ArriveSimple(r, ip) ==
  /\ reqs[r].pc = "new"
  /\ IF r = 1 THEN TRUE ELSE reqs[r - 1].pc # "new"
  /\ LET n == limiter.mem[ip] + 1
     IN  /\ limiter' = [limiter EXCEPT !.mem[ip] = n]
         /\ reqs' = [reqs EXCEPT ![r] =
                       Decide([@ EXCEPT !.ip = ip, !.unavail = ~StoreReady],
                              [totalHits |-> n, resetMs |-> limiter.windowMs])]
  /\ UNCHANGED <<connVars, store, cacheVars, opVars, inWindow, windowClean,
                 httpVars>>

\* the window of the in-process store ends: its hits are reset
WindowEndSimple(ip) ==
  /\ limiter.mem[ip] > 0
  /\ limiter' = [limiter EXCEPT !.mem[ip] = 0]
  /\ UNCHANGED <<connVars, store, cacheVars, opVars, reqs, inWindow,
                 windowClean, httpVars>>

\* skipFailedRequests: the response of a request is finished; a response
\* with status >= 400 (the limiter's own 429 included) calls
\* store.decrement(key), which runs up to its first await
Complete(r, ok) ==
  /\ Decided(r)
  /\ reqs[r].fin = "none"
  /\ LET failed == reqs[r].pc = "rejected" \/ ~ok
         c      == GetRedisClient
     IN  reqs' = [reqs EXCEPT ![r] =
                    [@ EXCEPT !.failed = failed,
                              !.fin = IF failed /\ c # NoClient /\ IsOpen(c)
                                        THEN "awaitDecr" ELSE "done"]]
  /\ UNCHANGED <<connVars, store, cacheVars, opVars, limiter, inWindow,
                 windowClean, httpVars>>

\* the store executes DECR and answers; if (current < 0) client.set(key, 0)
DecrReply(r) ==
  /\ reqs[r].fin = "awaitDecr"
  /\ open /\ responsive
  /\ LET k == RateKey(reqs[r].ip)
         e == store[k]
         n == (IF e.present THEN e.n ELSE 0) - 1
     IN  /\ store' = [store EXCEPT ![k] = [present |-> TRUE, v |-> "", n |-> n,
                                           ttl |-> IF e.present THEN e.ttl ELSE 0]]
         /\ reqs' = [reqs EXCEPT ![r].fin = IF n < 0 THEN "awaitSet" ELSE "done"]
  /\ UNCHANGED <<connVars, cacheVars, opVars, limiter, inWindow, windowClean,
                 httpVars>>

\* the store executes SET key 0 and answers (SET discards the expiry)
SetZeroReply(r) ==
  /\ reqs[r].fin = "awaitSet"
  /\ open /\ responsive
  /\ store' = [store EXCEPT ![RateKey(reqs[r].ip)] =
                 [present |-> TRUE, v |-> "", n |-> 0, ttl |-> 0]]
  /\ reqs' = [reqs EXCEPT ![r].fin = "done"]
  /\ UNCHANGED <<connVars, cacheVars, opVars, limiter, inWindow, windowClean,
                 httpVars>>

\* DECR or SET rejects: the catch block of RedisStore.decrement
DecrError(r) ==
  /\ reqs[r].fin \in {"awaitDecr", "awaitSet"}
  /\ reqs' = [reqs EXCEPT ![r].fin = "done"]
  /\ UNCHANGED <<connVars, store, cacheVars, opVars, limiter, inWindow,
                 windowClean, httpVars>>

----------------------------------------------------------------------------
(* GET /api/v1/chapters: getChapters *)

Queries == {"page=1", "page=2"}

\* responseData of a listing computed before any upload
ResponseData == ResponseDataOf(0)

IdleReq == [pc |-> "idle", q |-> "", key |-> <<>>, res |-> "", cachedData |-> VNull,
            snap |-> 0, rid |-> 0]

\* if (cachedData)
Truthy(v) == v \notin {VNull, VFalse, <<"num", "0">>, <<"str", "">>}

\* ...cachedData in an argument list needs an iterable
IsIterable(v) == v[1] = "str"

\* validateQuery fails: 400
BadRequest ==
  /\ h.pc = "idle"
  /\ h' = [IdleReq EXCEPT !.pc = "done", !.res = "400"]
  /\ UNCHANGED <<connVars, store, cacheVars, opVars, rateVars>>
  /\ UNCHANGED <<server, keyVars, u, db, sd>>

\* validateQuery passes; generateCacheKey (not awaited); cacheService.get
\* up to its first await
StartRequest(q) ==
  /\ h.pc = "idle"
  /\ Begin("get", KPromise, <<>>)
  /\ h' = [IdleReq EXCEPT !.pc = "lookup", !.q = q, !.key = KPromise]
  /\ UNCHANGED <<server, keyVars, u, db, sd>>

\* app.use(rateLimiter) comes before the routers: getChapters runs for a
\* request once the limiter has called next() for it
Route(r, q) ==
  /\ h.pc = "idle"
  /\ r > h.rid
  /\ reqs[r].pc = "admitted"
  /\ Begin("get", KPromise, <<>>)
  /\ h' = [IdleReq EXCEPT !.pc = "lookup", !.q = q, !.key = KPromise, !.rid = r]
  /\ UNCHANGED <<server, keyVars, u, db, sd>>

\* cacheService.get has returned
AfterGet ==
  /\ h.pc = "lookup"
  /\ op.name = "get"
  /\ TakeResult
  /\ h' = IF Truthy(op.result)
            THEN [h EXCEPT !.pc = "done", !.cachedData = op.result,
                           !.res = IF IsIterable(op.result)
                                     THEN "200 cached" ELSE "next(error)"]
            ELSE [h EXCEPT !.pc = "query", !.snap = db]
  /\ UNCHANGED <<server, keyVars, u, db, sd>>

\* the record store answers with the records as they were at some moment
\* since the query was sent; responseData is built; cacheService.set up to
\* its first await
DbReply ==
  /\ h.pc = "query"
  /\ \E n \in h.snap..db : Begin("set", h.key, ResponseDataOf(n))
  /\ h' = [h EXCEPT !.pc = "writeThrough"]
  /\ UNCHANGED <<server, keyVars, u, db, sd>>

\* the record store query rejects: catch, next(error)
DbError ==
  /\ h.pc = "query"
  /\ h' = [h EXCEPT !.pc = "done", !.res = "next(error)"]
  /\ UNCHANGED <<connVars, store, cacheVars, opVars, rateVars>>
  /\ UNCHANGED <<server, keyVars, u, db, sd>>

\* cacheService.set has returned: res.status(200).json(responseData)
AfterSet ==
  /\ h.pc = "writeThrough"
  /\ op.name = "set"
  /\ TakeResult
  /\ h' = [h EXCEPT !.pc = "done", !.res = "200"]
  /\ UNCHANGED <<server, keyVars, u, db, sd>>

\* the response is out; the next request can come
ResponseSent ==
  /\ h.pc = "done"
  /\ h' = [IdleReq EXCEPT !.rid = h.rid]
  /\ UNCHANGED <<connVars, store, cacheVars, opVars, rateVars>>
  /\ UNCHANGED <<server, keyVars, u, db, sd>>

\* POST /api/v1/chapters: uploadChapters

\* the stored listing entries: under a derived key or under the key the
\* handler uses
ListingKeys == CacheKeys \cup {KPromise}

IdleUp == [pc |-> "idle", n |-> 0, valid |-> 0, uploaded |-> 0, failed |-> 0,
           res |-> ""]

\* no array of chapters in the request, or an empty one: 400
UploadBadRequest ==
  /\ u.pc = "idle"
  /\ u' = [IdleUp EXCEPT !.pc = "done", !.res = "400"]
  /\ UNCHANGED <<connVars, store, cacheVars, opVars, rateVars>>
  /\ UNCHANGED <<h, server, keyVars, db, sd>>

\* an array of n chapters: validateChapters finds v of them valid and the
\* others invalid (failedChapters); with v > 0 Chapter.insertMany is sent
\* to the record store, otherwise 201
UploadStart(n, v) ==
  /\ u.pc = "idle"
  /\ db < MaxInserts
  /\ u' = [IdleUp EXCEPT !.pc = IF v > 0 THEN "insert" ELSE "done",
                         !.res = IF v > 0 THEN "" ELSE "201",
                         !.n = n, !.valid = v, !.failed = n - v]
  /\ UNCHANGED <<connVars, store, cacheVars, opVars, rateVars>>
  /\ UNCHANGED <<h, server, keyVars, db, sd>>

\* insertMany (ordered: false) resolves with all the valid chapters saved,
\* or rejects: a bulk write error carries w write errors and the other
\* documents as insertedDocs; any other error carries neither
InsertOutcomes(v) ==
  {[kind |-> "saved", uploaded |-> v, failed |-> 0]}
    \cup {[kind |-> "bulk", uploaded |-> v - w, failed |-> w] : w \in 1..v}
    \cup {[kind |-> "other", uploaded |-> 0, failed |-> 0]}

\* insertMany has returned or thrown into the catch block; with chapters
\* uploaded invalidateChapterCache runs up to its first await, otherwise 201
InsertReply(o) ==
  /\ u.pc = "insert"
  /\ LET done == [u EXCEPT !.uploaded = o.uploaded, !.failed = @ + o.failed]
     IN  IF o.uploaded > 0
           THEN /\ Begin("invalidatePattern", ChapterPattern, <<>>)
                /\ u' = [done EXCEPT !.pc = "invalidating"]
                /\ db' = db + 1
           ELSE /\ u' = [done EXCEPT !.pc = "done", !.res = "201"]
                /\ db' = db
                /\ UNCHANGED <<connVars, store, cacheVars, opVars, rateVars>>
  /\ UNCHANGED <<h, server, keyVars, sd>>

\* invalidateChapterCache has returned (its result is not looked at): 201
AfterInvalidate ==
  /\ u.pc = "invalidating"
  /\ op.name = "invalidatePattern"
  /\ TakeResult
  /\ u' = [u EXCEPT !.pc = "done", !.res = "201"]
  /\ UNCHANGED <<h, server, keyVars, db, sd>>

\* the response of the upload is out; the next upload can come
UploadSent ==
  /\ u.pc = "done"
  /\ u' = [IdleUp EXCEPT !.n = u.n, !.uploaded = u.uploaded, !.failed = u.failed]
  /\ UNCHANGED <<connVars, store, cacheVars, opVars, rateVars>>
  /\ UNCHANGED <<h, server, keyVars, db, sd>>

----------------------------------------------------------------------------
(* CacheService.generateCacheKey *)

Endpoint == "/api/v1/chapters"

\* parameter names, in the order sort() puts them
ParamNames == <<"class", "limit", "page">>

Rank(name) == CHOOSE i \in 1..Len(ParamNames) : ParamNames[i] = name

\* parameter values: strings, null, undefined, and a string that
\* encodeURIComponent refuses (a lone surrogate)
JStr(x) == [t |-> "str", s |-> x]
JNull == [t |-> "null", s |-> ""]
JUndefined == [t |-> "undefined", s |-> ""]
JLoneSurrogate == [t |-> "malformed", s |-> ""]
ParamValues == {JStr("10"), JStr("a b"), JNull, JUndefined, JLoneSurrogate}

\* query mappings: pairs <<name, value>> in insertion order, names distinct
QueryMappings ==
  UNION {{q \in [1..n -> {<<ParamNames[i], v>> : i \in 1..Len(ParamNames),
                                                  v \in ParamValues}] :
            \A i, j \in 1..n : i # j => q[i][1] # q[j][1]} :
         n \in 0..Len(ParamNames)}

\* encodeURIComponent on the strings of ParamValues
EncodeURIComponent(x) == IF x = "a b" THEN "a%20b" ELSE x

\* Array.prototype.sort on the keys, as an insertion sort
RECURSIVE InsertSorted(_, _)
InsertSorted(p, sorted) ==
  IF sorted = <<>> THEN <<p>>
  ELSE IF Rank(p[1]) < Rank(Head(sorted)[1]) THEN <<p>> \o sorted
  ELSE <<Head(sorted)>> \o InsertSorted(p, Tail(sorted))

RECURSIVE SortByKey(_)
SortByKey(q) ==
  IF q = <<>> THEN <<>> ELSE InsertSorted(Head(q), SortByKey(Tail(q)))

\* .filter(key => query[key] !== undefined && query[key] !== null)
RECURSIVE FilterDefined(_)
FilterDefined(q) ==
  IF q = <<>> THEN <<>>
  ELSE IF Head(q)[2].t \in {"null", "undefined"} THEN FilterDefined(Tail(q))
  ELSE <<Head(q)>> \o FilterDefined(Tail(q))

\* .map(key => `${key}=${encodeURIComponent(query[key])}`).join('&')
RECURSIVE JoinPairs(_)
JoinPairs(q) ==
  IF q = <<>> THEN ""
  ELSE Head(q)[1] \o "=" \o EncodeURIComponent(Head(q)[2].s)
       \o (IF Tail(q) = <<>> THEN "" ELSE "&" \o JoinPairs(Tail(q)))

\* the value generateCacheKey resolves to
GenerateCacheKeyUnsorted(endpoint, q) ==
  IF q = <<>> THEN endpoint
  ELSE LET kept == FilterDefined(q)
       IN  IF \E i \in 1..Len(kept) : kept[i][2].t = "malformed"
             THEN endpoint
             ELSE IF JoinPairs(kept) # "" THEN endpoint \o "?" \o JoinPairs(kept)
                  ELSE endpoint

GenerateCacheKey(endpoint, q) ==
  IF q = <<>> THEN endpoint
  ELSE LET kept == FilterDefined(SortByKey(q))
       IN  IF \E i \in 1..Len(kept) : kept[i][2].t = "malformed"
             THEN endpoint
             ELSE IF JoinPairs(kept) # "" THEN endpoint \o "?" \o JoinPairs(kept)
                  ELSE endpoint

NoKey == ""

\* a caller passes a query mapping
CallGenerateCacheKey(q) ==
  /\ cacheKey' = NoKey
  /\ query' = q
  /\ UNCHANGED <<connVars, store, cacheVars, opVars, rateVars, h, server, u, db, sd>>

\* the promise of generateCacheKey resolves
KeyResolved ==
  /\ cacheKey = NoKey
  /\ cacheKey' = GenerateCacheKey(Endpoint, query)
  /\ UNCHANGED <<connVars, store, cacheVars, opVars, rateVars, h, server, query, u, db, sd>>

----------------------------------------------------------------------------
(* server.js: startServer, initializeServices *)

\* connectRedis resolves: app.listen
StartConnected ==
  /\ server = "starting"
  /\ redisClient' = Handle
  /\ open' = TRUE
  /\ server' = "listening"
  /\ UNCHANGED <<lib, responsive, store, cacheVars, opVars, rateVars, h, keyVars, u, db, sd>>

\* the store is unreachable: connect() rejects. The ioredis connectRedis
\* rethrows, initializeServices rethrows, startServer calls process.exit(1);
\* the node-redis connectRedis returns null and the server listens
StartUnreachable ==
  /\ server = "starting"
  /\ redisClient' = IF lib = "redis" THEN Handle ELSE NoClient
  /\ open' = FALSE
  /\ server' = IF lib = "redis" THEN "listening" ELSE "exited"
  /\ UNCHANGED <<lib, responsive, store, cacheVars, opVars, rateVars, h, keyVars, u, db, sd>>

\* server.js and config/redis.js: shutdown on a signal

Signals == {"SIGTERM", "SIGINT"}

\* main: gracefulShutdown of server.js; cfg: gracefulShutdown of the ioredis
\* config/redis.js; http: the HTTP server; disconnected: a handler has
\* disconnected the store client
NoShutdown == [signal |-> "none", main |-> "none", cfg |-> "none", http |-> "open",
               disconnected |-> FALSE, exitBy |-> "none"]

\* the process receives the signal and calls its listeners in the order of
\* registration, each up to its first await. config/redis.js, required at
\* the top of server.js, has registered first: the ioredis module's
\* gracefulShutdown enters disconnectRedis (quit is sent when there is a
\* client); the node-redis module registers no listener. Then server.js's
\* gracefulShutdown calls server.close
Signal(sig) ==
  /\ server = "listening"
  /\ sd.signal = "none"
  /\ sd' = [sd EXCEPT !.signal = sig,
                      !.cfg = IF lib = "ioredis"
                                THEN IF redisClient # NoClient THEN "awaitQuit"
                                                               ELSE "awaitNothing"
                                ELSE "none",
                      !.main = "awaitClose",
                      !.http = "closing"]
  /\ UNCHANGED <<connVars, store, cacheVars, opVars, rateVars, h, server, keyVars, u, db>>

\* config/redis.js gracefulShutdown: disconnectRedis has returned (quit
\* answered or failed, redisClient = null); process.exit(0)
CfgExit ==
  /\ server = "listening"
  /\ sd.cfg \in {"awaitQuit", "awaitNothing"}
  /\ redisClient' = NoClient
  /\ open' = FALSE
  /\ server' = "exited"
  /\ sd' = [sd EXCEPT !.cfg = "done", !.disconnected = TRUE, !.exitBy = "config/redis"]
  /\ UNCHANGED <<lib, responsive, store, cacheVars, opVars, rateVars, h, keyVars, u, db>>

\* the HTTP server has closed: the callback of server.close resolves the
\* promise; server.js gracefulShutdown enters disconnectRedis
HttpClosed ==
  /\ server = "listening"
  /\ sd.main = "awaitClose"
  /\ sd' = [sd EXCEPT !.http = "closed", !.main = "awaitDisconnect"]
  /\ UNCHANGED <<connVars, store, cacheVars, opVars, rateVars, h, server, keyVars, u, db>>

\* server.js gracefulShutdown: disconnectRedis has returned; process.exit(0)
MainExit ==
  /\ server = "listening"
  /\ sd.main = "awaitDisconnect"
  /\ redisClient' = IF lib = "ioredis" THEN NoClient ELSE redisClient
  /\ open' = FALSE
  /\ server' = "exited"
  /\ sd' = [sd EXCEPT !.main = "done", !.disconnected = TRUE, !.exitBy = "server"]
  /\ UNCHANGED <<lib, responsive, store, cacheVars, opVars, rateVars, h, keyVars, u, db>>

----------------------------------------------------------------------------

InitOf(windows, maxes) ==
  /\ lib \in {"ioredis", "redis"}
  /\ redisClient = NoClient
  /\ open = FALSE
  /\ responsive = TRUE
  /\ store = [k \in AllKeys |-> Absent]
  /\ client = NoClient
  /\ initialized = FALSE
  /\ retryPending = FALSE
  /\ op = Idle
  /\ lastSet = NoSet
  /\ expiredSince = FALSE
  /\ lateTimers = 0
  /\ unhandledRejection = FALSE
  /\ limiter \in {[windowMs |-> w, max |-> m, message |-> DefaultMessage,
                    mem |-> [ip \in Addresses |-> 0]] : w \in windows, m \in maxes}
  /\ reqs = [r \in Requests |-> NewReq]
  /\ inWindow = [ip \in Addresses |-> 0]
  /\ windowClean = [ip \in Addresses |-> TRUE]
  /\ h = IdleReq
  /\ u = IdleUp
  /\ db = 0
  /\ sd = NoShutdown

InitWith(windows) == InitOf(windows, {LimiterMax})

\* the server listens and generateCacheKey is not under way
Listening == server = "listening" /\ query = <<>> /\ cacheKey = NoKey

Init == InitWith({DefaultWindowMs}) /\ Listening

InitRate == InitWith(WindowChoices) /\ Listening

\* the process has been launched: startServer has not run yet
InitStart ==
  InitWith({DefaultWindowMs}) /\ server = "starting" /\ query = <<>> /\ cacheKey = NoKey

NextConn ==
  \/ ConnectRedis
  \/ ConnectRedisFail
  \/ ConnDrop
  \/ ConnRestore
  \/ ConnEnd

NextCache ==
  \/ NextConn
  \/ Initialize
  \/ RetryInit
  \/ \E k \in CacheKeys : Expire(k)
  \/ \E k \in CacheKeys : CallGet(k)
  \/ \E k \in CacheKeys, v \in Values : CallSet(k, v)
  \/ CallSet(OtherKey, VObjN)
  \/ \E k \in CacheKeys : CallDelete(k)
  \/ \E p \in Patterns : CallInvalidatePattern(p)
  \/ CallClearAll
  \/ CallHealthCheck
  \/ GetReply
  \/ SetReply
  \/ DeleteReply
  \/ KeysReply
  \/ DelKeysReply
  \/ FlushReply
  \/ StoreError
  \/ PingReply
  \/ PingError
  \/ TimerFire
  \/ Return
  \/ LateTimerFire

SpecCache == Init /\ [][NextCache]_vars

NextRate ==
  \/ NextConn
  \/ StoreHang
  \/ StoreRecover
  \/ \E r \in Requests, ip \in Addresses : Arrive(r, ip)
  \/ \E r \in Requests : IncrReply(r)
  \/ \E r \in Requests : ExpireReply(r)
  \/ \E r \in Requests : IncrError(r)
  \/ \E ip \in Addresses : WindowEnd(ip)

\* an answering store answers; a closed connection rejects the commands
\* that wait for a reply
FairRate ==
  \A r \in Requests :
    /\ SF_vars(IncrReply(r)) /\ SF_vars(ExpireReply(r))
    /\ SF_vars(~open /\ IncrError(r))

SpecRate == InitRate /\ [][NextRate]_vars /\ FairRate

\* a limiter of either kind: requests go through the store-backed limiter
\* or through the in-process one
NextLimiters ==
  \/ NextRate
  \/ \E r \in Requests, ip \in Addresses : ArriveSimple(r, ip)
  \/ \E ip \in Addresses : WindowEndSimple(ip)

SpecLimiters == InitRate /\ [][NextLimiters]_vars

\* uploadLimiter: the limiter with skipFailedRequests
UploadAddress == "10.0.0.1"

\* uploads of one address, each sent after the limiter has decided on the
\* one before
Upload(r) ==
  /\ IF r = 1 THEN TRUE ELSE Decided(r - 1)
  /\ Arrive(r, UploadAddress)

NextUpload ==
  \/ NextConn
  \/ \E r \in Requests : Upload(r)
  \/ \E r \in Requests : IncrReply(r)
  \/ \E r \in Requests : ExpireReply(r)
  \/ \E r \in Requests : IncrError(r)
  \/ WindowEnd(UploadAddress)
  \/ \E r \in Requests, ok \in BOOLEAN : Complete(r, ok)
  \/ \E r \in Requests : DecrReply(r)
  \/ \E r \in Requests : SetZeroReply(r)
  \/ \E r \in Requests : DecrError(r)

SpecUpload == Init /\ [][NextUpload]_vars

\* uploadLimiter with the store connected and answering: concurrent uploads
\* of one address, their increments and the decrements of the failed ones
\* interleaved; max is one less than the bound, so that the requests of the
\* model outnumber it by two
InitRace == InitOf({DefaultWindowMs}, {LimiterMax - 1}) /\ Listening

Submit(r) == StoreReady /\ Arrive(r, UploadAddress)

NextRace ==
  \/ ConnectRedis
  \/ \E r \in Requests : Submit(r)
  \/ \E r \in Requests : IncrReply(r)
  \/ \E r \in Requests : ExpireReply(r)
  \/ WindowEnd(UploadAddress)
  \/ \E r \in Requests, ok \in BOOLEAN : Complete(r, ok)
  \/ \E r \in Requests : DecrReply(r)
  \/ \E r \in Requests : SetZeroReply(r)

SpecRace == InitRace /\ [][NextRace]_vars

\* two limiter instances of different policies in one process, requests of
\* the addresses going through either
NextPolicies ==
  \/ NextConn
  \/ \E L \in Policies, r \in Requests, ip \in Addresses : ArriveAt(L, r, ip)
  \/ \E r \in Requests : IncrReply(r)
  \/ \E r \in Requests : ExpireReply(r)
  \/ \E r \in Requests : IncrError(r)
  \/ \E ip \in Addresses : WindowEnd(ip)

SpecPolicies == Init /\ [][NextPolicies]_vars

NextHttp ==
  \/ NextConn
  \/ StoreHang
  \/ StoreRecover
  \/ Initialize
  \/ RetryInit
  \/ Expire(KPromise)
  \/ BadRequest
  \/ \E q \in Queries : StartRequest(q)
  \/ AfterGet
  \/ DbReply
  \/ DbError
  \/ AfterSet
  \/ ResponseSent
  \/ GetReply
  \/ SetReply
  \/ StoreError
  \/ TimerFire
  \/ LateTimerFire

\* the event loop runs a continuation that is ready, timers fire, the record
\* store answers, and the store answers while it is open and responsive
FairHttp ==
  /\ WF_vars(AfterGet) /\ WF_vars(AfterSet)
  /\ WF_vars(DbReply \/ DbError)
  /\ WF_vars(TimerFire) /\ WF_vars(LateTimerFire)
  /\ SF_vars(GetReply) /\ SF_vars(SetReply)
  /\ SF_vars(~open /\ StoreError)

SpecHttp == Init /\ [][NextHttp]_vars /\ FairHttp

NextKey ==
  \/ \E q \in QueryMappings : CallGenerateCacheKey(q)
  \/ KeyResolved

InitKey ==
  /\ InitWith({DefaultWindowMs})
  /\ server = "listening"
  /\ query \in QueryMappings
  /\ cacheKey = NoKey

SpecKey == InitKey /\ [][NextKey]_vars

\* the same, with the retry timer of attemptInit firing
SpecInit == Init /\ [][NextHttp]_vars /\ FairHttp /\ WF_vars(RetryInit)

\* a request on its way through the middleware chain: the limiter, then
\* getChapters; one request at a time
Enter(r) ==
  /\ h.pc = "idle"
  /\ \A p \in Requests : p < r => (reqs[p].pc = "rejected" \/ h.rid >= p)
  /\ Arrive(r, UploadAddress)

NextChain ==
  \/ NextConn
  \/ Initialize
  \/ RetryInit
  \/ \E r \in Requests : Enter(r)
  \/ \E r \in Requests : IncrReply(r)
  \/ \E r \in Requests : ExpireReply(r)
  \/ \E r \in Requests : IncrError(r)
  \/ \E r \in Requests : Route(r, "page=1")
  \/ AfterGet
  \/ DbReply
  \/ DbError
  \/ AfterSet
  \/ ResponseSent
  \/ GetReply
  \/ SetReply
  \/ StoreError
  \/ TimerFire
  \/ LateTimerFire

SpecChain == Init /\ [][NextChain]_vars

\* the handlers of GET and POST /api/v1/chapters. The scan of
\* invalidateChapterCache finds no key, the listing handler storing under
\* KPromise only, so no DEL is sent
NextApp ==
  \/ NextHttp
  \/ KeysReply
  \/ UploadBadRequest
  \/ \E n \in 1..MaxChapters : \E v \in 0..n : UploadStart(n, v)
  \/ \E o \in InsertOutcomes(u.valid) : InsertReply(o)
  \/ AfterInvalidate
  \/ UploadSent

SpecApp == Init /\ [][NextApp]_vars

\* the two handlers side by side with the store connected and answering
\* throughout: a listing request and an upload, interleaved at their awaits
Listing(q) == IsAvailable /\ StartRequest(q)

Uploading(n, v) == IsAvailable /\ UploadStart(n, v)

NextCoherence ==
  \/ ConnectRedis
  \/ Initialize
  \/ \E q \in Queries : Listing(q)
  \/ AfterGet
  \/ DbReply
  \/ AfterSet
  \/ ResponseSent
  \/ \E n \in 1..MaxChapters : \E v \in 0..n : Uploading(n, v)
  \/ \E o \in InsertOutcomes(u.valid) : InsertReply(o)
  \/ AfterInvalidate
  \/ UploadSent
  \/ GetReply
  \/ SetReply
  \/ KeysReply
  \/ TimerFire

SpecCoherence == Init /\ [][NextCoherence]_vars

\* the cache service and the rate limiter on the one store: the requests of
\* an address are counted, one after the other, while cache entries are
\* written, deleted, invalidated and cleared
NextShared ==
  \/ ConnectRedis
  \/ Initialize
  \/ \E r \in Requests : Upload(r)
  \/ \E r \in Requests : IncrReply(r)
  \/ \E r \in Requests : ExpireReply(r)
  \/ CallSet(K1, VObjN)
  \/ CallDelete(K1)
  \/ \E p \in Patterns : CallInvalidatePattern(p)
  \/ CallClearAll
  \/ SetReply
  \/ DeleteReply
  \/ KeysReply
  \/ DelKeysReply
  \/ FlushReply
  \/ TimerFire
  \/ Return

SpecShared == Init /\ [][NextShared]_vars

\* the process from its launch: requests are handled once it listens
NextStart ==
  \/ StartConnected
  \/ StartUnreachable
  \/ server = "listening" /\ NextHttp

SpecStart == InitStart /\ [][NextStart]_vars

\* the listening process, handling requests, receives a signal
NextShutdown ==
  \/ server = "listening" /\ NextHttp
  \/ \E sig \in Signals : Signal(sig)
  \/ CfgExit
  \/ HttpClosed
  \/ MainExit

SpecShutdown == Init /\ [][NextShutdown]_vars

----------------------------------------------------------------------------
(* Claims on the cache service, checked under SpecCache *)

\* the get in flight has been answered by the store, right after a set of
\* the same key returned true, with no expiry in between
GetRightAfterSet ==
  /\ op.name = "get" /\ op.pc = "done" /\ op.how \in {"hit", "miss"}
  /\ lastSet # NoSet /\ lastSet.key = op.key
  /\ ~expiredSince

\* C1 as stated: set(k, v) returning true followed immediately by get(k),
\* the store available and responsive, returns a value equal to v, for
\* every value v.
C1_SetThenGetEqual == GetRightAfterSet => op.result = lastSet.val

\* C1 amended: set(k, v) returning true followed immediately by get(k)
\* returns JSON.parse(JSON.stringify(v)); that is v itself whenever v is
\* JSON-representable (null, booleans, finite numbers, strings, plain
\* objects of these without undefined fields).
C1_SetThenGetRoundTrip ==
  GetRightAfterSet =>
    /\ op.result = JSONparse(JSONstringify(lastSet.val))
    /\ lastSet.val \in PlainValues => op.result = lastSet.val

C1_Witness ==
  /\ GetRightAfterSet /\ op.how = "hit"
  /\ lastSet.val = VObjN /\ op.result = VObjN

\* C2: while the cache service is unavailable, get returns absent and set,
\* delete, invalidatePattern and clearAll return false, at once (no store
\* command is sent, no timer armed), and the store contents do not change.
C2_UnavailableSafeDefault ==
  [][(op.pc = "idle" /\ op'.pc # "idle" /\ op'.name \in CacheOps /\ ~IsAvailable)
       => /\ op'.pc = "done"
          /\ op'.result = SafeDefault(op'.name)
          /\ op'.timer = "none"
          /\ store' = store]_vars

C2_Witness ==
  /\ op.name = "set" /\ op.pc = "done" /\ op.how = "unavailable"
  /\ op.result = VFalse
  /\ initialized /\ client # NoClient /\ ~open
  /\ store[K1].present

\* C3: when the store round trip of get, set, delete, invalidatePattern or
\* clearAll fails with an error, the operation returns its safe default
\* (absent for get, false for the others); nothing is thrown to the caller.
C3_StoreErrorSafeDefault ==
  (op.name \in CacheOps /\ op.pc = "done" /\ op.how = "error")
    => op.result = SafeDefault(op.name)

C3_Witness ==
  /\ op.name = "invalidatePattern" /\ op.pc = "done" /\ op.how = "error"
  /\ op.keys # {} /\ op.result = VFalse

\* C4 as stated: no cache operation outlives its timer; once the 5 s timer
\* of get, set, delete (10 s of invalidatePattern, clearAll) has fired, the
\* operation has completed.
C4_TimerBoundsOperation ==
  (op.name \in CacheOps /\ op.timer = "fired" /\ op.ms \in {5000, 10000})
    => op.pc = "done"

\* C5 as stated: no execution of a cache operation leaves a rejected timer
\* promise without a handler, so the process 'unhandledRejection' handler
\* is never triggered.
C5_NoUnhandledRejection == ~unhandledRejection

----------------------------------------------------------------------------
(* Claims on the listing handler, checked under SpecHttp *)

\* C6 as stated: a request that has passed validation eventually receives
\* a response, also when the store stops answering during the cache lookup
\* or the write-through set.
C6_RequestEventuallyAnswered ==
  (h.pc \in {"lookup", "query", "writeThrough"}) ~> (h.pc = "done")

----------------------------------------------------------------------------
(* Claims on the rate limiter, checked under SpecRate *)

\* C7 as stated: an increment that has been sent to an open store returns
\* a result, also when the store never answers.
C7_IncrementEventuallyReturns ==
  \A r \in Requests :
    (reqs[r].pc \in {"awaitIncr", "awaitExpire"}) ~> Decided(r)

\* C8 as stated: with the store connected and ready, of the requests of one
\* address in one window the first max are admitted and the (max+1)-th is
\* rejected, with retryAfter = ceil(windowMs / 1000).
C8_LimitEnforced ==
  \A r \in Requests :
    (Decided(r) /\ reqs[r].clean) =>
      /\ reqs[r].ord <= limiter.max => reqs[r].pc = "admitted"
      /\ reqs[r].ord = limiter.max + 1 =>
           /\ reqs[r].pc = "rejected"
           /\ reqs[r].retryAfter = RetryAfter(limiter.windowMs)

\* C9 as stated: an increment called while the store is unavailable returns
\* totalHits = 1 and resetTime = now + windowMs, and the request is admitted.
C9_FailOpenUnavailable ==
  \A r \in Requests :
    (Decided(r) /\ reqs[r].unavail) =>
      /\ reqs[r].hits = 1
      /\ reqs[r].resetMs = limiter.windowMs
      /\ reqs[r].pc = "admitted"

\* C10: an increment whose INCR or EXPIRE command raised an error returns
\* totalHits = 1 and the request is admitted.
C10_ErrorFailsOpen ==
  \A r \in Requests :
    (Decided(r) /\ reqs[r].errored) =>
      reqs[r].hits = 1 /\ reqs[r].pc = "admitted"

C10_Witness ==
  \E r \in Requests :
    /\ reqs[r].errored /\ reqs[r].pc = "admitted"
    /\ reqs[r].ord = limiter.max + 1
    /\ store[RateKey(reqs[r].ip)].n = limiter.max

\* C11 as stated: the counter of an address, once its expiry is set, expires
\* after the configured window (windowMs / 1000 seconds), and an increment
\* answered by the store reports resetTime = now + windowMs.
C11_ExpiryIsConfiguredWindow ==
  /\ \A ip \in Addresses :
       (store[RateKey(ip)].present /\ store[RateKey(ip)].ttl > 0) =>
         store[RateKey(ip)].ttl * 1000 = limiter.windowMs
  /\ \A r \in Requests :
       (Decided(r) /\ ~reqs[r].unavail /\ ~reqs[r].errored /\ lib = "redis") =>
         reqs[r].resetMs = limiter.windowMs

----------------------------------------------------------------------------
(* Claims on the upload limiter, checked under SpecUpload *)

\* the count the store holds for an address (an absent counter counts 0)
Count(ip) == IF store[RateKey(ip)].present THEN store[RateKey(ip)].n ELSE 0

\* C12 as stated: in every reachable state of the store, the states between
\* the DECR and the SET of a decrement included, every rate counter is >= 0.
C12_CounterNeverNegative ==
  \A ip \in Addresses : Count(ip) >= 0

\* the requests of an address whose increment the counter should hold: the
\* store has executed their INCR in the current window and they have not
\* been taken back as failed
Slots(ip) ==
  Cardinality({r \in Requests :
                 /\ reqs[r].ip = ip /\ reqs[r].counted
                 /\ ~(reqs[r].failed /\ reqs[r].fin = "done")})

DecrementInFlight(ip) ==
  \E r \in Requests : reqs[r].ip = ip /\ reqs[r].fin \in {"awaitDecr", "awaitSet"}

\* C13 as stated: a failed request does not consume a slot and takes no slot
\* of another request: outside the steps of a decrement the counter of an
\* address is the number of its counted requests that have not failed.
C13_FailedRequestFreesItsSlot ==
  \A ip \in Addresses : ~DecrementInFlight(ip) => Count(ip) = Slots(ip)

----------------------------------------------------------------------------
(* Claims on the limiters of both kinds, checked under SpecLimiters *)

\* C14: every rejection by a limiter, store-backed or in-process, is a 429
\* response whose body has exactly the fields success (false), error,
\* message and retryAfter, with retryAfter = ceil(windowMs / 1000).
C14_RejectionBody ==
  \A r \in Requests :
    reqs[r].pc = "rejected" =>
      /\ reqs[r].body.status = 429
      /\ DOMAIN reqs[r].body.json = {"success", "error", "message", "retryAfter"}
      /\ reqs[r].body.json.success = FALSE
      /\ reqs[r].body.json.message # ""
      /\ reqs[r].body.json.retryAfter * 1000 >= limiter.windowMs
      /\ (reqs[r].body.json.retryAfter - 1) * 1000 < limiter.windowMs

C14_Witness ==
  \E r \in Requests :
    /\ reqs[r].pc = "rejected"
    /\ limiter.windowMs = 120000
    /\ reqs[r].body.json.retryAfter = 120
    /\ store[RateKey(reqs[r].ip)].n = limiter.max + 1

----------------------------------------------------------------------------
(* Claims on the start of the process, checked under SpecStart *)

\* C15 as stated: once startServer has run, the server is listening, also
\* when the store was unreachable at the start.
C15_StoreNeverStopsServer ==
  server # "starting" => server = "listening"

----------------------------------------------------------------------------
(* Claims on the listing handler, checked under SpecHttp *)

\* C16 as stated: when the cache lookup of the listing handler returns a
\* stored entry, the handler answers 200 with the cached payload.
C16_CacheHitAnswers200 ==
  (h.pc = "done" /\ Truthy(h.cachedData)) => h.res = "200 cached"

\* C17 as stated: when the cache lookup has returned absent and the record
\* store has answered, the handler answers 200 with the fresh result,
\* whatever becomes of the write-through set.
C17_AbsentLookupAnswers200 ==
  (h.pc = "writeThrough") ~> (h.pc = "done" /\ h.res = "200")

\* the key generateCacheKey resolves to for the validated query of a request
KeyOfQuery(q) == IF q = "page=1" THEN K1 ELSE K2

\* C18 as stated: the cache key the listing handler reads and writes is the
\* string derived from the endpoint and the validated query, so requests
\* with different queries use different keys.
C18_KeyDerivedFromQuery ==
  h.pc \in {"lookup", "query", "writeThrough"} => h.key = KeyOfQuery(h.q)

----------------------------------------------------------------------------
(* Claims on generateCacheKey, checked under SpecKey *)

\* the mapping behind a sequence of pairs: insertion order forgotten
Mapping(q) == {q[i] : i \in 1..Len(q)}

\* the names of q whose value is neither null nor undefined, in
\* lexicographic order
RefNames(q) ==
  SelectSeq(ParamNames,
            LAMBDA n : \E p \in Mapping(q) :
                         p[1] = n /\ p[2].t \notin {"null", "undefined"})

RefValue(q, n) == (CHOOSE p \in Mapping(q) : p[1] = n)[2]

RECURSIVE RefJoin(_, _)
RefJoin(q, names) ==
  IF names = <<>> THEN ""
  ELSE Head(names) \o "=" \o EncodeURIComponent(RefValue(q, Head(names)).s)
       \o (IF Len(names) > 1 THEN "&" \o RefJoin(q, Tail(names)) ELSE "")

\* the reference of the statement: the endpoint when q is empty, otherwise
\* endpoint + '?' + the join
RefKeyAsStated(endpoint, q) ==
  IF Mapping(q) = {} THEN endpoint
  ELSE endpoint \o "?" \o RefJoin(q, RefNames(q))

\* the reference with the endpoint alone when no parameter is left to join
\* or a value cannot be encoded
RefKey(endpoint, q) ==
  IF RefNames(q) = <<>> THEN endpoint
  ELSE IF \E p \in Mapping(q) : p[2].t = "malformed" THEN endpoint
  ELSE endpoint \o "?" \o RefJoin(q, RefNames(q))

\* C19 as stated: the key is the endpoint when q is empty and otherwise
\* endpoint + '?' + the join over the parameters that are neither null nor
\* undefined.
C19_KeyEqualsStatedReference ==
  cacheKey # NoKey => cacheKey = RefKeyAsStated(Endpoint, query)

\* C19, amended: the key is the endpoint alone when no parameter with a
\* value other than null and undefined is left (or a value cannot be
\* encoded), otherwise endpoint + '?' + the sorted join; it does not depend
\* on the insertion order of q nor on its null or undefined parameters.
C19_KeyEqualsReference ==
  cacheKey # NoKey =>
    /\ cacheKey = RefKey(Endpoint, query)
    /\ \A p \in QueryMappings :
         RefNames(p) = RefNames(query)
           /\ (\A n \in Mapping(p) : n[2].t \notin {"null", "undefined"}
                                       => n \in Mapping(query))
           => GenerateCacheKey(Endpoint, p) = cacheKey

C19_Witness ==
  /\ query = << <<"page", JStr("a b")>>, <<"limit", JStr("10")>>, <<"class", JNull>> >>
  /\ cacheKey = "/api/v1/chapters?limit=10&page=a%20b"

----------------------------------------------------------------------------
(* Claims on invalidatePattern, checked under SpecCache *)

\* C20: every step of invalidatePattern(p) leaves the keys that do not
\* match p unchanged; when it completes with the store having answered, it
\* returns true and no key matching p is stored; when the scan finds no key
\* it returns true with the store unchanged.
C20_InvalidatePattern ==
  [][(op.name = "invalidatePattern" /\ op'.name = "invalidatePattern"
      /\ op.pc # op'.pc)
     => /\ \A k \in AllKeys : ~Match(op.key, k) => store'[k] = store[k]
        /\ (op'.pc = "done" /\ op'.how = "ok") =>
             /\ op'.result = VTrue
             /\ \A k \in AllKeys : Match(op.key, k) => ~store'[k].present
        /\ (op.pc = "awaitStore" /\ op'.pc = "done" /\ op'.how = "ok") =>
             store' = store]_vars

C20_Witness ==
  /\ op.name = "invalidatePattern" /\ op.pc = "done" /\ op.how = "ok"
  /\ op.key = ChapterPattern /\ op.keys = {K1, K2}
  /\ ~store[K1].present /\ ~store[K2].present
  /\ store[OtherKey].present

----------------------------------------------------------------------------
(* Claims on the upload handler, checked under SpecApp *)

\* C21 as stated: when the 201 response of an upload that inserted at least
\* one chapter is sent, no chapter-listing entry remains in the store.
C21_UploadLeavesNoListingEntry ==
  (u.pc = "done" /\ u.res = "201" /\ u.uploaded > 0) =>
    \A k \in ListingKeys : ~store[k].present

----------------------------------------------------------------------------
(* Claims on the cache service, checked under SpecCache *)

\* C22 as stated: delete(key) returns true or false, false when the cache is
\* unavailable, on a store error and once its 5 s timeout has passed, and
\* it leaves every other key alone.
C22_DeleteResult ==
  op.name = "delete" =>
    /\ op.pc = "done" => op.result \in {VTrue, VFalse}
    /\ (op.pc = "done" /\ op.how \in {"unavailable", "error"}) => op.result = VFalse
    /\ op.timer = "fired" => (op.pc = "done" /\ op.result = VFalse)

HealthStatuses ==
  {<<"status", "not_initialized">>, <<"status", "unavailable">>,
   <<"status", "healthy">>, <<"status", "error">>}

----------------------------------------------------------------------------
(* Claims on initialize, checked under SpecInit *)

\* C24 as stated: once initialize() has found the store client unavailable
\* and scheduled its retry, the service becomes available (isAvailable()
\* true), unless the store client is seen not ready again.
C24_RetryMakesAvailable ==
  (retryPending /\ ~initialized) ~> (IsAvailable \/ ~StoreReady)

----------------------------------------------------------------------------
(* Claims on the cache service, checked under SpecCache *)

\* C25 as stated: a call of initialize() made while the service is ready
\* leaves the client reference, the initialized flag and isAvailable()
\* unchanged and schedules no retry.
C25_InitializeIdempotent ==
  [][(initialized /\ Initialize) =>
       /\ client' = client
       /\ initialized' = initialized
       /\ retryPending' = retryPending
       /\ IsAvailable' = IsAvailable]_vars

\* C26 as stated: isAvailable() is true exactly when the service holds a
\* store reference, the connection of that reference is open, and an
\* initialization has succeeded.
C26_IsAvailableIff ==
  IsAvailable <=> (client # NoClient /\ open /\ initialized)

\* ---------------------------------------------------------------------
\* C27: the limiter runs once per request and before the route handler:
\* the handler (cache lookup, record-store query, cache write) runs only
\* for a request the limiter admitted, a rejected request is never
\* handled, and a request admitted while the store was reachable and
\* answering has raised its address's counter exactly once
C27_LimiterBeforeHandler ==
  /\ h.rid # 0 => reqs[h.rid].pc = "admitted"
  /\ \A r \in Requests :
       /\ reqs[r].incrs \in {0, 1}
       /\ reqs[r].pc = "rejected" => h.rid # r
       /\ (reqs[r].pc = "admitted" /\ ~reqs[r].unavail /\ ~reqs[r].errored) =>
             reqs[r].incrs = 1

\* ---------------------------------------------------------------------
\* C28: increments of one rate key are atomic: the requests of an address
\* that reached a ready store within one window, none of them failing, hold
\* pairwise distinct totalHits, which are exactly 1..N for the N of them;
\* the counter holds every increment; and once the racing requests have
\* their results the key has an expiry of the window length
\* (the requests of the address so far are all of one window: the window's
\* count is their number)
From(ip) == {r \in Requests : reqs[r].ip = ip}

RaceOn(ip) == {r \in From(ip) : ~reqs[r].unavail}

C28_AtomicIncrements ==
  \A ip \in Addresses :
    LET race == RaceOn(ip)
    IN  (/\ race # {}
         /\ \A r \in From(ip) : Decided(r) /\ ~reqs[r].errored
         /\ inWindow[ip] = Cardinality(From(ip))) =>
          /\ {reqs[r].hits : r \in race} = 1..Cardinality(race)
          /\ Count(ip) = Cardinality(race)
          /\ store[RateKey(ip)].ttl * 1000 = limiter.windowMs

\* ---------------------------------------------------------------------
\* C29: a timeout is the failure of one operation and nothing more: when
\* the timer of a get, set, delete or invalidatePattern fires, that
\* operation ends with its failure result, so that the next operation can
\* be issued, and neither isAvailable(), the initialized flag nor any
\* other state of the process changes
TimedOps == {"get", "set", "delete", "invalidatePattern"}

C29_TimeoutFailsOneOperation ==
  [][(TimerFire /\ op.name \in TimedOps) =>
        /\ op'.pc = "done" /\ op'.how = "timeout"
        /\ op'.result = SafeDefault(op.name)
        /\ IsAvailable' = IsAvailable
        /\ initialized' = initialized
        /\ unhandledRejection' = unhandledRejection]_vars

\* ---------------------------------------------------------------------
\* C30: get and set work on the current store handle: whenever one of them
\* is called on the initialized service while the store connection is
\* open, also after a drop of the connection or the replacement of the
\* handle and with no initialize() or healthCheck() since, it performs a
\* store round trip, on the handle config/redis holds
C30_ResumeOnCurrentHandle ==
  [][(/\ op.pc = "idle" /\ op'.pc # "idle"
      /\ op'.name \in {"get", "set"}
      /\ initialized /\ StoreReady) =>
        /\ op'.pc = "awaitStore"
        /\ client' = redisClient]_vars

----------------------------------------------------------------------------
(* Claims on the rate counters in the store, checked under SpecUpload *)

\* C31: no rate counter lives forever: every rate key that holds a count
\* >= 1 carries an expiry, outside the step between an INCR and the EXPIRE
\* that follows it; also after an increment whose EXPIRE failed and after a
\* decrement that clamped the counter with a plain SET
ExpirePending(ip) ==
  \E r \in Requests : reqs[r].ip = ip /\ reqs[r].pc = "awaitExpire"

C31_CountersExpire ==
  \A ip \in Addresses :
    (Count(ip) >= 1 /\ ~ExpirePending(ip)) => store[RateKey(ip)].ttl > 0

----------------------------------------------------------------------------
(* Claims on concurrent uploads, checked under SpecRace *)

\* the requests of an address that the limiter admitted and holds counted
\* in the current window: their INCR was executed in this window and they
\* have not ended as failed
AdmittedCounted(ip) ==
  {r \in Requests : /\ reqs[r].ip = ip /\ reqs[r].counted
                    /\ reqs[r].pc = "admitted" /\ ~reqs[r].failed}

\* C32: with the store available, under every interleaving of the
\* increments and decrements on the key of an address, the requests of the
\* address admitted and counted within one window are never more than max
C32_NeverMoreThanMax ==
  \A ip \in Addresses : Cardinality(AdmittedCounted(ip)) <= limiter.max

----------------------------------------------------------------------------
(* Claims on limiter instances, checked under SpecPolicies *)

\* C33: limiters of different policies keep independent counters: the
\* increment of a request counted by one limiter instance leaves the
\* counter that every other instance reads for the same address unchanged
C33_IndependentCounters ==
  [][\A r \in Requests, L \in Policies :
       (IncrReply(r) /\ L # reqs[r].via) =>
          store'[LimiterKey(L, reqs[r].ip)] = store[LimiterKey(L, reqs[r].ip)]]_vars

----------------------------------------------------------------------------
(* Claims on the listing cache and uploads, checked under SpecCoherence *)

\* C34: cache coherence after an upload: once a listing request and an
\* upload that inserted chapters have both completed, under every
\* interleaving of their steps and with the store available throughout,
\* every cached listing entry holds the result computed from the record
\* store as it is after the insert
C34_NoStaleListing ==
  (/\ u.pc \in {"idle", "done"} /\ u.uploaded > 0
   /\ h.pc \in {"idle", "done"}
   /\ op.pc = "idle") =>
     \A k \in ListingKeys :
       store[k].present => JSONparse(store[k].v) = ResponseDataOf(db)

----------------------------------------------------------------------------
(* Claims on the shared store, checked under SpecShared *)

\* C35: cache maintenance leaves the rate-limit state alone: no store
\* command of delete, invalidatePattern, invalidateChapterCache or clearAll
\* changes the count or the expiry of a rate counter
C35_MaintenanceKeepsCounters ==
  [][(DeleteReply \/ KeysReply \/ DelKeysReply \/ FlushReply) =>
        \A ip \in Addresses : store'[RateKey(ip)] = store[RateKey(ip)]]_vars

----------------------------------------------------------------------------
(* Claims on the shutdown, checked under SpecShutdown *)

\* C36: on SIGTERM or SIGINT the shutdown is ordered: the store client is
\* disconnected only after the HTTP server has closed, and the process
\* exits, whichever handler makes it exit, only after the HTTP server has
\* closed and the store client has been disconnected
C36_OrderedShutdown ==
  sd.signal # "none" =>
    /\ (sd.cfg = "awaitQuit" \/ sd.disconnected) => sd.http = "closed"
    /\ server = "exited" => (sd.http = "closed" /\ sd.disconnected)

----------------------------------------------------------------------------
(* Claims on the upload's report, checked under SpecApp *)

\* C37: upload accounting is complete: in the 201 response of an upload of
\* n >= 1 chapters, uploadedCount + failedCount = n, whatever the mix of
\* validation failures and insert errors
C37_UploadAccounting ==
  (u.pc = "done" /\ u.res = "201") => u.uploaded + u.failed = u.n

====
